---- MODULE Spec2Model ----
(***************************************************************************)
(* Shape-level and value-level model of                                    *)
(*   gpytorch/distributions/multivariate_normal.py  (the dual-mode          *)
(*       Gaussian, its lazy caches, sampling, log_prob reconciliation,      *)
(*       multitask reinterpretation and the registered KL), and             *)
(*   gpytorch/mlls/_approximate_mll.py  (the approximate ELBO forward).     *)
(*                                                                         *)
(* A tensor is modelled by its shape (a sequence of positive sizes); the    *)
(* ELBO terms additionally carry an exact rational fill value.  A raised   *)
(* Python exception is a result record whose status names the error kind.  *)
(***************************************************************************)
EXTENDS Integers, Sequences, FiniteSets, TLC

VARIABLES
    self,    \* the Gaussian instance under test (its immutable attributes)
    cache,   \* its lazily filled attributes, with counters of the computations run
    first,   \* for each cached accessor, the value its first access returned
    call,    \* the last call made: operation, arguments, outcome
    mll      \* the ELBO objective: num_data, beta, combine_terms

vars == <<self, cache, first, call, mll>>

(***************************************************************************)
(* Bounds of the model.                                                    *)
(***************************************************************************)
MaxDim == 2          \* largest size of a batch dimension of a mean / covariance
MaxArgDim == 3       \* largest size of a dimension of a value / base_samples argument
MaxBatchRank == 2    \* largest number of batch dimensions of mean / covariance
MaxEvent == 2        \* largest event dimension d
MaxSampleRank == 1   \* largest number of sample dimensions in front of loc.shape
MaxNumData == 2      \* largest num_data of the ELBO
MaxTerms == 1        \* largest number of registered priors / added-loss terms
MaxLLRank == 1       \* largest number of dimensions of the log-likelihood term
MaxExtra == 2        \* largest number of dimensions the KL term has beyond them

(***************************************************************************)
(* Shapes (torch.Size) and the tensor-shape primitives the source uses.    *)
(***************************************************************************)
Max(a, b) == IF a >= b THEN a ELSE b
Min(a, b) == IF a <= b THEN a ELSE b

RECURSIVE SeqsUpTo(_, _)
SeqsUpTo(S, n) ==
    IF n = 0 THEN {<<>>}
    ELSE LET prev == SeqsUpTo(S, n - 1)
         IN prev \cup {Append(s, x) : s \in {t \in prev : Len(t) = n - 1}, x \in S}

Sizes == 1..MaxDim
BatchShapes == SeqsUpTo(Sizes, MaxBatchRank)

RECURSIVE numel(_)
numel(shape) == IF shape = <<>> THEN 1 ELSE Head(shape) * numel(Tail(shape))

\* shape[:n] and shape[n:] for 0 <= n <= len(shape)
Take(shape, n) == SubSeq(shape, 1, n)
Drop(shape, n) == SubSeq(shape, n + 1, Len(shape))
\* shape[-n:]: the whole shape when n >= len(shape) (Python slicing clamps)
Last(shape, n) == IF n >= Len(shape) THEN shape ELSE Drop(shape, Len(shape) - n)
\* shape[:-n]
ButLast(shape, n) == IF n >= Len(shape) THEN <<>> ELSE Take(shape, Len(shape) - n)

Ones(n) == [i \in 1..n |-> 1]
PadLeft(shape, n) == Ones(n - Len(shape)) \o shape

\* Right-aligned broadcasting of two shapes.
Broadcastable(a, b) ==
    LET n == Max(Len(a), Len(b))
        pa == PadLeft(a, n)
        pb == PadLeft(b, n)
    IN \A i \in 1..n : pa[i] = pb[i] \/ pa[i] = 1 \/ pb[i] = 1

Broadcast(a, b) ==
    LET n == Max(Len(a), Len(b))
        pa == PadLeft(a, n)
        pb == PadLeft(b, n)
    IN [i \in 1..n |-> IF pa[i] = 1 THEN pb[i] ELSE pa[i]]

\* utils.broadcasting._mul_broadcast_shape: the common shape, or a RuntimeError.
mul_broadcast_shape(a, b) ==
    IF Broadcastable(a, b)
    THEN [status |-> "ok", shape |-> Broadcast(a, b)]
    ELSE [status |-> "ShapeMismatch"]

\* Tensor.expand / LazyTensor.expand to an explicit target shape.
CanExpand(shape, target) ==
    /\ Len(target) >= Len(shape)
    /\ LET ps == PadLeft(shape, Len(target))
       IN \A i \in 1..Len(target) : ps[i] = target[i] \/ ps[i] = 1

(***************************************************************************)
(* Covariance arguments.  A covariance is a record: whether it is a        *)
(* LazyTensor, its shape (batch ++ <<d, d>>), the rank of its root          *)
(* decomposition (the number of columns of .root), and `via`, the           *)
(* computation that produced the value ("given": the constructor argument).*)
(***************************************************************************)
EventDims == 1..MaxEvent
Ranks == 1..(MaxEvent + 1)

Covariances ==
    {[lazy |-> l, shape |-> b \o <<d, d>>, rank |-> r, via |-> "given"] :
        l \in BOOLEAN, b \in BatchShapes, d \in EventDims, r \in Ranks}

Means == {b \o <<d>> : b \in BatchShapes, d \in EventDims}

NoneValue == [via |-> "None"]

\* torch.distributions.MultivariateNormal.__init__ (the dense base class): loc and
\* covariance are broadcast to batch_shape, the Cholesky factor is computed and
\* handed to the _unbroadcasted_scale_tril setter.  No _covar attribute is set.
TMultivariateNormal(mean, covariance_matrix, validate_args) ==
    LET bs == mul_broadcast_shape(ButLast(mean, 1), ButLast(covariance_matrix.shape, 2))
    IN IF bs.status # "ok" THEN [status |-> "ShapeMismatch"]
       ELSE [status |-> "ok",
             obj |-> [islazy |-> FALSE,
                      loc |-> bs.shape \o Last(mean, 1),
                      covariance_matrix |->
                          [covariance_matrix EXCEPT
                              !.shape = bs.shape \o Last(covariance_matrix.shape, 2)],
                      validate_args |-> validate_args,
                      batch_shape |-> bs.shape,
                      event_shape |-> Last(mean, 1)]]

\* _MultivariateNormalBase.__init__
MultivariateNormal(mean, covariance_matrix, validate_args) ==
    IF covariance_matrix.lazy
    THEN IF validate_args
         THEN [status |-> "NotSupported"]
         ELSE LET bs == mul_broadcast_shape(ButLast(mean, 1),
                                            ButLast(covariance_matrix.shape, 2))
              IN IF bs.status # "ok" THEN [status |-> "ShapeMismatch"]
                 ELSE [status |-> "ok",
                       obj |-> [islazy |-> TRUE,
                                loc |-> mean,
                                covar |-> covariance_matrix,
                                validate_args |-> validate_args,
                                batch_shape |-> bs.shape,
                                event_shape |-> Last(mean, 1)]]
    ELSE TMultivariateNormal(mean, covariance_matrix, validate_args)

\* The instance __dict__ entries that change after construction, with ghost
\* counters of the three underlying computations.
NewCache(obj) ==
    IF obj.islazy
    THEN [ust |-> NoneValue, covariance_matrix |-> <<>>, lazy_covariance_matrix |-> <<>>,
          nEvaluate |-> 0, nLazify |-> 0, nCholesky |-> 0]
    ELSE [ust |-> [via |-> "torch_cholesky"],
          covariance_matrix |-> <<obj.covariance_matrix>>,
          lazy_covariance_matrix |-> <<>>,
          nEvaluate |-> 0, nLazify |-> 0, nCholesky |-> 1]

\* The constructor's results over every mean and covariance of the same event
\* size (the root of a dense covariance has at most d columns).
Constructed ==
    {MultivariateNormal(m, c, v) :
        m \in Means,
        c \in {x \in Covariances : ~x.lazy => x.rank <= x.shape[Len(x.shape)]},
        v \in BOOLEAN}

\* the instances construction can return
Instances ==
    {r.obj : r \in {x \in Constructed :
                        /\ x.status = "ok"
                        /\ IF x.obj.islazy
                           THEN x.obj.covar.shape[Len(x.obj.covar.shape)] = x.obj.event_shape[1]
                           ELSE x.obj.covariance_matrix.shape[Len(x.obj.loc) + 1]
                                    = x.obj.event_shape[1]}}

(***************************************************************************)
(* The lazily cached attributes.  Each accessor returns the value and the  *)
(* cache after the access.                                                 *)
(***************************************************************************)
\* lazy_covariance_matrix (torch lazy_property: the wrapped function runs when the
\* instance __dict__ holds no entry of that name, and its result is stored there).
lazy_covariance_matrix(obj, c) ==
    IF c.lazy_covariance_matrix # <<>>
    THEN [value |-> c.lazy_covariance_matrix[1], cache |-> c]
    ELSE LET v == IF obj.islazy
                  THEN obj.covar
                  ELSE [c.covariance_matrix[1] EXCEPT !.lazy = TRUE, !.via = "lazify"]
         IN [value |-> v,
             cache |-> [c EXCEPT !.lazy_covariance_matrix = <<v>>,
                                 !.nLazify = IF obj.islazy THEN @ ELSE @ + 1]]

\* covariance_matrix as a plain property: evaluated on every access, never stored
covariance_matrix_uncached(obj, c) ==
    IF obj.islazy
    THEN [value |-> [obj.covar EXCEPT !.lazy = FALSE, !.via = "evaluate"],
          cache |-> [c EXCEPT !.nEvaluate = @ + 1]]
    ELSE [value |-> c.covariance_matrix[1], cache |-> c]

\* covariance_matrix (lazy_property)
covariance_matrix(obj, c) ==
    IF c.covariance_matrix # <<>>
    THEN [value |-> c.covariance_matrix[1], cache |-> c]
    ELSE LET v == [obj.covar EXCEPT !.lazy = FALSE, !.via = "evaluate"]
         IN [value |-> v,
             cache |-> [c EXCEPT !.covariance_matrix = <<v>>, !.nEvaluate = @ + 1]]

\* _unbroadcasted_scale_tril getter
get_unbroadcasted_scale_tril(obj, c) ==
    IF obj.islazy /\ c.ust = NoneValue
    THEN LET lc == lazy_covariance_matrix(obj, c)
             ust == [via |-> "cholesky", of |-> lc.value]
         IN [value |-> ust,
             cache |-> [lc.cache EXCEPT !.ust = ust, !.nCholesky = @ + 1]]
    ELSE [value |-> c.ust, cache |-> c]

\* the setter without its islazy guard
set_unbroadcasted_scale_tril_unguarded(obj, c, ust) ==
    [status |-> "ok", cache |-> [c EXCEPT !.ust = ust]]

\* _unbroadcasted_scale_tril setter
set_unbroadcasted_scale_tril(obj, c, ust) ==
    IF obj.islazy
    THEN [status |-> "NotSupported", cache |-> c]
    ELSE [status |-> "ok", cache |-> [c EXCEPT !.ust = ust]]

(***************************************************************************)
(* rsample                                                                 *)
(***************************************************************************)
\* sample_shape.numel() or 1
num_samples(sample_shape) == IF numel(sample_shape) = 0 THEN 1 ELSE numel(sample_shape)

\* If necessary, adjust base_samples for rank of root decomposition: base is the
\* permuted base_samples shape, r is covar_root.shape[-1].
adjust_base_samples(base, r) ==
    IF r < base[Len(base) - 1]
    THEN [status |-> "ok", base |-> ButLast(base, 2) \o <<r, base[Len(base)]>>]
    ELSE IF r > base[Len(base) - 1]
    THEN [status |-> "DimensionMismatch"]
    ELSE [status |-> "ok", base |-> base]

\* a.matmul(b) on shapes (.., m, k) x (.., k, n) with broadcast batch dimensions
matmul(a, b) ==
    IF a[Len(a)] # b[Len(b) - 1] \/ ~Broadcastable(ButLast(a, 2), ButLast(b, 2))
    THEN [status |-> "RuntimeError"]
    ELSE [status |-> "ok",
          shape |-> Broadcast(ButLast(a, 2), ButLast(b, 2)) \o <<a[Len(a) - 1], b[Len(b)]>>]

\* Permute and reshape new samples to be original size:
\* res.permute(-1, 0..loc.dim()-1).contiguous().view(sample_shape + loc.shape)
permute_and_view(res, loc, sample_shape) ==
    IF Len(res) # Len(loc) + 1
    THEN [status |-> "RuntimeError", at |-> "permute"]
    ELSE IF numel(res) # numel(sample_shape \o loc)
    THEN [status |-> "RuntimeError", at |-> "view"]
    ELSE [status |-> "ok", shape |-> sample_shape \o loc]

\* rsample(sample_shape, base_samples): base_samples is <<>> (None) or <<shape>>.
rsample(obj, c, sample_shape, base_samples) ==
    LET lc == lazy_covariance_matrix(obj, c)
        covar == lc.value
    IN IF base_samples = <<>>
       THEN
         \* zero_mean_mvn_samples(num_samples) + loc.unsqueeze(0), then view
         LET zm == <<num_samples(sample_shape)>> \o ButLast(covar.shape, 1)
         IN IF ~Broadcastable(zm, <<1>> \o obj.loc)
            THEN [status |-> "RuntimeError", at |-> "add", cache |-> lc.cache]
            ELSE IF numel(Broadcast(zm, <<1>> \o obj.loc)) # numel(sample_shape \o obj.loc)
            THEN [status |-> "RuntimeError", at |-> "view", cache |-> lc.cache]
            ELSE [status |-> "ok", shape |-> sample_shape \o obj.loc, cache |-> lc.cache]
       ELSE
         LET bs == base_samples[1]
         IN IF obj.loc # Last(bs, Len(obj.loc))
            THEN [status |-> "ShapeMismatch", cache |-> lc.cache]
            ELSE
              LET inferred == Take(bs, Len(bs) - Len(obj.loc))
                  \* view(-1, *loc.shape), permute(1..loc.dim(), 0)
                  permuted == obj.loc \o <<numel(inferred)>>
                  covar_root == ButLast(covar.shape, 1) \o <<covar.rank>>
                  adj == adjust_base_samples(permuted, covar_root[Len(covar_root)])
              IN IF adj.status # "ok"
                 THEN [status |-> adj.status, cache |-> lc.cache]
                 ELSE
                   LET mm == matmul(covar_root, adj.base)
                   IN IF mm.status # "ok"
                      THEN [status |-> "RuntimeError", at |-> "matmul", cache |-> lc.cache]
                      ELSE
                        LET res == Broadcast(mm.shape, obj.loc \o <<1>>)
                            pv == permute_and_view(res, obj.loc, inferred)
                        IN IF pv.status # "ok"
                           THEN [status |-> pv.status, at |-> pv.at, cache |-> lc.cache]
                           ELSE [status |-> "ok", shape |-> pv.shape,
                                 sample_shape |-> inferred,
                                 rows |-> permuted[Len(permuted) - 1],
                                 used |-> 1..adj.base[Len(adj.base) - 1],
                                 cache |-> lc.cache]

(***************************************************************************)
(* log_prob: the batch-shape reconciliation before inv_quad_logdet         *)
(***************************************************************************)
\* torch Distribution._validate_sample: the value's event shape is the
\* distribution's and its batch shape broadcasts with batch_shape.
validate_sample(obj, value) ==
    /\ Len(value) >= 1
    /\ Last(value, 1) = obj.event_shape
    /\ Broadcastable(ButLast(value, 1), obj.batch_shape)

\* covar.repeat(*(diff_size // covar_size ...), 1, 1): the repeated batch shape
repeat_factors(diff_batch, padded_batch_shape) ==
    [i \in 1..Min(Len(diff_batch), Len(padded_batch_shape)) |->
        diff_batch[i] \div padded_batch_shape[i]]

\* Repeat the covar to match the batch shape of diff (lines 117-126).  Returns
\* the batch shapes of diff and covar that reach inv_quad_logdet.
reconcile(diff, covar_shape) ==
    LET diff_batch == ButLast(diff, 1)
        covar_batch == ButLast(covar_shape, 2)
    IN IF diff_batch # covar_batch
       THEN IF Len(diff_batch) < Len(covar_batch)
            THEN IF CanExpand(diff, ButLast(covar_shape, 1))
                 THEN [status |-> "ok", how |-> "expand",
                       diff_batch |-> covar_batch, covar_batch |-> covar_batch]
                 ELSE [status |-> "ShapeMismatch"]
            ELSE LET padded_batch_shape ==
                         Ones((Len(diff) + 1) - Len(covar_shape)) \o covar_batch
                     factors == repeat_factors(diff_batch, padded_batch_shape)
                 IN [status |-> "ok", how |-> "repeat", factors |-> factors,
                     diff_batch |-> diff_batch,
                     covar_batch |->
                         [i \in 1..Len(factors) |-> padded_batch_shape[i] * factors[i]]]
       ELSE [status |-> "ok", how |-> "none",
             diff_batch |-> diff_batch, covar_batch |-> covar_batch]

\* log_prob(value); fast is settings.fast_computations.log_prob.on()
log_prob(obj, c, value, fast) ==
    IF ~fast
    THEN [status |-> "ok", path |-> "base", cache |-> c]
    ELSE IF obj.validate_args /\ ~validate_sample(obj, value)
    THEN [status |-> "InvalidSample", cache |-> c]
    ELSE
      LET lc == lazy_covariance_matrix(obj, c)
      IN IF ~Broadcastable(value, obj.loc)
         THEN [status |-> "ShapeMismatch", cache |-> lc.cache]
         ELSE LET diff == Broadcast(value, obj.loc)
                  rec == reconcile(diff, lc.value.shape)
              IN IF rec.status # "ok"
                 THEN [status |-> rec.status, cache |-> lc.cache]
                 ELSE \* the shapes handed to covar.inv_quad_logdet
                      [status |-> "ok", path |-> "fast", how |-> rec.how,
                       factors |-> IF rec.how = "repeat" THEN rec.factors ELSE <<>>,
                       diff_batch |-> rec.diff_batch,
                       covar_batch |-> rec.covar_batch,
                       cache |-> lc.cache]

(***************************************************************************)
(* expand and the multitask reinterpretation                               *)
(***************************************************************************)
\* expand(batch_size)
expand(obj, batch_size) ==
    IF ~CanExpand(obj.loc, batch_size \o Last(obj.loc, 1))
    THEN [status |-> "ShapeMismatch"]
    ELSE IF "covar" \notin DOMAIN obj
    THEN [status |-> "AttributeError"]     \* the dense constructor sets no _covar
    ELSE IF ~CanExpand(obj.covar.shape, batch_size \o Last(obj.covar.shape, 2))
    THEN [status |-> "ShapeMismatch"]
    ELSE MultivariateNormal(batch_size \o Last(obj.loc, 1),
                            [obj.covar EXCEPT
                                !.shape = batch_size \o Last(obj.covar.shape, 2)],
                            FALSE)

\* The axes handed to mean.permute: range(0, task_dim), range(task_dim + 1, num_dim),
\* task_dim (0-based, as in the source).
permute_dims(task_dim, num_dim) ==
    [i \in 1..task_dim |-> i - 1]
        \o [i \in 1..Max(0, num_dim - task_dim - 1) |-> task_dim + i]
        \o <<task_dim>>

\* Tensor.permute(*dims): dims must name every axis exactly once.
permute(shape, dims) ==
    IF /\ Len(dims) = Len(shape)
       /\ {dims[i] : i \in 1..Len(dims)} = 0..(Len(shape) - 1)
    THEN [status |-> "ok", shape |-> [i \in 1..Len(dims) |-> shape[dims[i] + 1]]]
    ELSE [status |-> "RuntimeError"]

\* MultitaskMultivariateNormal(mean, covariance_matrix): the last two axes of the
\* mean are the event, the others the batch.
MultitaskMultivariateNormal(mean, block_dim, lazy_covar) ==
    [mean |-> mean,
     event_shape |-> Last(mean, 2),
     batch_shape |-> ButLast(mean, 2),
     block_dim |-> block_dim,
     base_lazy_tensor |-> lazy_covar]

\* the normalized task_dim passes the range check of line 231
task_dim_in_range(task_dim, num_batch_dims) ==
    ~(task_dim < 0 \/ task_dim > num_batch_dims)

\* to_multitask_from_batch(task_dim)
to_multitask_from_batch(obj, c, orig_task_dim) ==
    LET task_dim == IF orig_task_dim >= 0 THEN orig_task_dim
                    ELSE Len(obj.batch_shape) + orig_task_dim
    IN IF ~task_dim_in_range(task_dim, Len(obj.batch_shape))
       THEN [status |-> "InvalidArgument", cache |-> c]
       ELSE LET num_dim == Len(obj.loc)
                dims == permute_dims(task_dim, num_dim)
                pm == permute(obj.loc, dims)
            IN IF pm.status # "ok"
               THEN [status |-> "RuntimeError", task_dim |-> task_dim, cache |-> c]
               ELSE LET lc == lazy_covariance_matrix(obj, c)
                    IN [status |-> "ok", task_dim |-> task_dim, dims |-> dims,
                        res |-> MultitaskMultivariateNormal(pm.shape, task_dim, lc.value),
                        cache |-> lc.cache]

\* to_multitask(num_tasks)
to_multitask(obj, c, num_tasks) ==
    LET e == expand(obj, <<num_tasks>> \o obj.batch_shape)
    IN IF e.status # "ok"
       THEN [status |-> e.status, cache |-> c]
       ELSE LET m == to_multitask_from_batch(e.obj, NewCache(e.obj), 0)
            IN IF m.status # "ok"
               THEN [status |-> m.status, cache |-> c]
               ELSE [status |-> "ok", res |-> m.res, cache |-> c]

(***************************************************************************)
(* kl_mvn_mvn                                                              *)
(***************************************************************************)
\* if output_shape != dist.batch_shape: dist = dist.expand(output_shape)
expand_if_needed(dist, output_shape) ==
    IF output_shape # dist.batch_shape
    THEN LET e == expand(dist, output_shape)
         IN IF e.status = "ok"
            THEN [status |-> "ok", obj |-> e.obj, expanded |-> TRUE]
            ELSE [status |-> e.status]
    ELSE [status |-> "ok", obj |-> dist, expanded |-> FALSE]

\* torch.cat([mean_diffs.unsqueeze(-1), root_p_covar], -1): every axis but the
\* last must agree.
cat_last(a, b) ==
    IF ButLast(a, 1) = ButLast(b, 1)
    THEN [status |-> "ok", shape |-> ButLast(a, 1) \o <<a[Len(a)] + b[Len(b)]>>]
    ELSE [status |-> "RuntimeError"]

\* kl_mvn_mvn(p_dist, q_dist); pc is the cache of p_dist.
kl_mvn_mvn(p_dist, pc, q_dist) ==
    LET out == mul_broadcast_shape(p_dist.batch_shape, q_dist.batch_shape)
    IN IF out.status # "ok"
       THEN [status |-> "ShapeMismatch", cache |-> pc]
       ELSE
         LET p == expand_if_needed(p_dist, out.shape)
         IN IF p.status # "ok"
            THEN [status |-> p.status, cache |-> pc]
            ELSE
              LET q == expand_if_needed(q_dist, out.shape)
              IN IF q.status # "ok"
                 THEN [status |-> q.status, cache |-> pc]
                 ELSE
                   LET q_covar == lazy_covariance_matrix(q.obj, NewCache(q.obj)).value
                       plc == lazy_covariance_matrix(p.obj,
                                  IF p.expanded THEN NewCache(p.obj) ELSE pc)
                       p_covar == plc.value
                       after == IF p.expanded THEN pc ELSE plc.cache
                       root_p_covar == ButLast(p_covar.shape, 1) \o <<p_covar.rank>>
                       mean_diffs == Broadcast(p.obj.loc, q.obj.loc)
                       rhs == cat_last(mean_diffs \o <<1>>, root_p_covar)
                   IN IF rhs.status # "ok"
                      THEN [status |-> "RuntimeError", at |-> "cat", cache |-> after]
                      ELSE
                        \* 0.5 * sum([logdet_q, -logdet_p, trace_plus_inv_quad_form, -d])
                        LET logdet_q == ButLast(q_covar.shape, 2)
                            logdet_p == ButLast(p_covar.shape, 2)
                            inv_quad == Broadcast(ButLast(q_covar.shape, 2),
                                                  ButLast(rhs.shape, 2))
                        IN [status |-> "ok",
                            shape |-> Broadcast(Broadcast(logdet_q, logdet_p), inv_quad),
                            output_shape |-> out.shape,
                            expanded_p |-> p.expanded,
                            expanded_q |-> q.expanded,
                            cache |-> after]

(***************************************************************************)
(* The approximate ELBO.  A term is a tensor filled with one exact         *)
(* rational value <<numerator, denominator>>: [ok, shape, val].            *)
(***************************************************************************)
Abs(x) == IF x < 0 THEN -x ELSE x

RECURSIVE Gcd(_, _)
Gcd(a, b) == IF b = 0 THEN a ELSE Gcd(b, a % b)

Rat(n, d) ==
    LET g == Gcd(Abs(n), Abs(d))
        sg == IF d < 0 THEN -1 ELSE 1
    IN <<(sg * n) \div g, (sg * d) \div g>>

RatAdd(x, y) == Rat(x[1] * y[2] + y[1] * x[2], x[2] * y[2])
RatSub(x, y) == Rat(x[1] * y[2] - y[1] * x[2], x[2] * y[2])
RatMul(x, y) == Rat(x[1] * y[1], x[2] * y[2])
RatDiv(x, y) == Rat(x[1] * y[2], x[2] * y[1])
RInt(n) == <<n, 1>>

Tensor(shape, val) == [ok |-> TRUE, shape |-> shape, val |-> val]
Failed == [ok |-> FALSE, shape |-> <<>>, val |-> RInt(0)]

\* elementwise a - b and a + b with broadcasting
TSub(a, b) ==
    IF a.ok /\ b.ok /\ Broadcastable(a.shape, b.shape)
    THEN Tensor(Broadcast(a.shape, b.shape), RatSub(a.val, b.val))
    ELSE Failed

TAdd(a, b) ==
    IF a.ok /\ b.ok /\ Broadcastable(a.shape, b.shape)
    THEN Tensor(Broadcast(a.shape, b.shape), RatAdd(a.val, b.val))
    ELSE Failed

\* t.div(x), t.sum(), t.sum(-1), torch.zeros_like(t)
div(t, x) == Tensor(t.shape, RatDiv(t.val, x))
sum_all(t) == Tensor(<<>>, RatMul(t.val, RInt(numel(t.shape))))
sum_last(t) == Tensor(ButLast(t.shape, 1), RatMul(t.val, RInt(t.shape[Len(t.shape)])))
zeros_like(t) == Tensor(t.shape, RInt(0))

\* the reconciliation with >= for > in its second test
same_size_ge(log_likelihood, kl_divergence) ==
    IF numel(log_likelihood.shape) = 1
    THEN sum_all(kl_divergence)
    ELSE IF Len(kl_divergence.shape) >= Len(log_likelihood.shape)
    THEN sum_last(kl_divergence)
    ELSE kl_divergence

\* Make sure LL and KL terms are the same size (lines 65-69)
same_size(log_likelihood, kl_divergence) ==
    IF numel(log_likelihood.shape) = 1
    THEN sum_all(kl_divergence)
    ELSE IF Len(kl_divergence.shape) > Len(log_likelihood.shape)
    THEN sum_last(kl_divergence)
    ELSE kl_divergence

\* added_loss.add_(term.loss()) over the registered terms (scalar losses)
RECURSIVE accumulate(_, _)
accumulate(acc, terms) ==
    IF terms = <<>> THEN acc
    ELSE accumulate(Tensor(acc.shape, RatAdd(acc.val, Head(terms))), Tail(terms))

\* log_prior.add_(prior.log_prob(closure()).sum().div(num_data)) over named_priors
prior_terms(priors, num_data) ==
    [i \in 1..Len(priors) |-> RatDiv(RInt(priors[i]), RInt(num_data))]

\* the third element of the uncombined tuple (lines 87 and 89)
uncombined_log_prior(log_prior, num_data) == div(log_prior, RInt(num_data))

\* forward(approximate_dist_f, target): in carries the event shape of
\* approximate_dist_f, the likelihood term, the KL of the variational strategy, the
\* loss() of each added-loss term and the summed log_prob of each prior.
forward(m, in) ==
    LET num_batch == numel(in.event_shape)
        log_likelihood == div(in.ll, RInt(num_batch))
        kl0 == div(in.kl, RatDiv(RInt(m.num_data), m.beta))
        kl_divergence == same_size(log_likelihood, kl0)
        added_loss == accumulate(zeros_like(log_likelihood),
                                 [i \in 1..Len(in.losses) |-> RInt(in.losses[i])])
        had_added_losses == Len(in.losses) > 0
        log_prior == accumulate(zeros_like(log_likelihood),
                                prior_terms(in.priors, m.num_data))
    IN IF m.combine_terms
       THEN [combined |-> TRUE,
             value |-> TSub(TAdd(TSub(log_likelihood, kl_divergence), log_prior),
                            added_loss),
             ll |-> log_likelihood, kl |-> kl_divergence]
       ELSE [combined |-> FALSE,
             terms |-> IF had_added_losses
                       THEN <<log_likelihood, kl_divergence,
                              uncombined_log_prior(log_prior, m.num_data), added_loss>>
                       ELSE <<log_likelihood, kl_divergence,
                              uncombined_log_prior(log_prior, m.num_data)>>,
             ll |-> log_likelihood, kl |-> kl_divergence]

(***************************************************************************)
(* Arguments the calls are driven with.                                    *)
(***************************************************************************)
ArgSizes == 1..MaxArgDim
ArgShapes == SeqsUpTo(ArgSizes, MaxBatchRank + 1 + MaxSampleRank)
SampleShapes == SeqsUpTo(ArgSizes, MaxSampleRank)
ValueShapes == SeqsUpTo(ArgSizes, MaxBatchRank + 1)
TaskDims == (-(MaxBatchRank + 1))..(MaxBatchRank + 1)
NumTasks == 1..MaxDim
ScaleTrils == {[via |-> "user", id |-> i] : i \in 1..2}

Accessors == {"covariance_matrix", "lazy_covariance_matrix", "_unbroadcasted_scale_tril"}

NoObjective == [num_data |-> 1, beta |-> RInt(1), combine_terms |-> TRUE]

Remember(op, value) == IF first[op] = <<>> THEN [first EXCEPT ![op] = <<value>>] ELSE first

(***************************************************************************)
(* Actions on one Gaussian instance.                                       *)
(***************************************************************************)
InitInstance ==
    /\ self \in Instances
    /\ cache = NewCache(self)
    /\ first = [a \in Accessors |-> <<>>]
    /\ call = [op |-> "idle"]
    /\ mll = NoObjective

\* The caller makes one call at a time: a call is made once the outcome of the
\* previous one has been consumed.
Idle == call.op = "idle"

Return ==
    /\ ~Idle
    /\ call' = [op |-> "idle"]
    /\ UNCHANGED <<self, cache, first, mll>>

GetCovarianceMatrix ==
    /\ Idle
    /\ LET r == covariance_matrix(self, cache)
       IN /\ cache' = r.cache
          /\ call' = [op |-> "covariance_matrix", value |-> r.value,
                      cached |-> cache.covariance_matrix # <<>>]
          /\ first' = Remember("covariance_matrix", r.value)
          /\ UNCHANGED <<self, mll>>

GetLazyCovarianceMatrix ==
    /\ Idle
    /\ LET r == lazy_covariance_matrix(self, cache)
       IN /\ cache' = r.cache
          /\ call' = [op |-> "lazy_covariance_matrix", value |-> r.value,
                      cached |-> cache.lazy_covariance_matrix # <<>>]
          /\ first' = Remember("lazy_covariance_matrix", r.value)
          /\ UNCHANGED <<self, mll>>

GetScaleTril ==
    /\ Idle
    /\ LET r == get_unbroadcasted_scale_tril(self, cache)
       IN /\ cache' = r.cache
          /\ call' = [op |-> "_unbroadcasted_scale_tril", value |-> r.value,
                      cached |-> cache.ust # NoneValue]
          /\ first' = Remember("_unbroadcasted_scale_tril", r.value)
          /\ UNCHANGED <<self, mll>>

SetScaleTril ==
    /\ Idle
    /\ \E ust \in ScaleTrils :
        LET r == set_unbroadcasted_scale_tril(self, cache, ust)
        IN /\ cache' = r.cache
           /\ call' = [op |-> "set_unbroadcasted_scale_tril", arg |-> ust,
                       status |-> r.status, before |-> cache]
           \* a stored user value is what later reads of the attribute return
           /\ first' = IF r.status = "ok"
                       THEN [first EXCEPT !["_unbroadcasted_scale_tril"] = <<ust>>]
                       ELSE first
           /\ UNCHANGED <<self, mll>>

Rsample ==
    /\ Idle
    /\ \E a \in {<<ss, <<>>>> : ss \in SampleShapes}
                   \cup {<<<<>>, <<b>>>> : b \in ArgShapes} :
        LET r == rsample(self, cache, a[1], a[2])
        IN /\ cache' = r.cache
           /\ call' = [op |-> "rsample", sample_shape |-> a[1], base_samples |-> a[2],
                       res |-> r]
           /\ UNCHANGED <<self, first, mll>>

LogProb ==
    /\ Idle
    /\ \E value \in ValueShapes, fast \in BOOLEAN :
        LET r == log_prob(self, cache, value, fast)
        IN /\ cache' = r.cache
           /\ call' = [op |-> "log_prob", value |-> value, fast |-> fast, res |-> r]
           /\ UNCHANGED <<self, first, mll>>

Expand ==
    /\ Idle
    /\ \E batch_size \in BatchShapes :
        /\ call' = [op |-> "expand", batch_size |-> batch_size,
                    res |-> expand(self, batch_size)]
        /\ UNCHANGED <<self, cache, first, mll>>

ToMultitask ==
    /\ Idle
    /\ \E n \in NumTasks :
        LET r == to_multitask(self, cache, n)
        IN /\ cache' = r.cache
           /\ call' = [op |-> "to_multitask", num_tasks |-> n, res |-> r]
           /\ UNCHANGED <<self, first, mll>>

ToMultitaskFromBatch ==
    /\ Idle
    /\ \E task_dim \in TaskDims :
        LET r == to_multitask_from_batch(self, cache, task_dim)
        IN /\ cache' = r.cache
           /\ call' = [op |-> "to_multitask_from_batch", task_dim |-> task_dim,
                       res |-> r]
           /\ UNCHANGED <<self, first, mll>>

KL ==
    /\ Idle
    /\ \E q \in {i \in Instances : i.event_shape = self.event_shape} :
        LET r == kl_mvn_mvn(self, cache, q)
        IN /\ cache' = r.cache
           /\ call' = [op |-> "kl", q |-> q, res |-> r]
           /\ UNCHANGED <<self, first, mll>>

NextCache ==
    \/ Return
    \/ GetCovarianceMatrix
    \/ GetLazyCovarianceMatrix
    \/ GetScaleTril
    \/ SetScaleTril

NextSample ==
    \/ Return
    \/ Rsample

NextLogProb ==
    \/ Return
    \/ LogProb

NextMultitask ==
    \/ Return
    \/ Expand
    \/ ToMultitask
    \/ ToMultitaskFromBatch

NextKL ==
    \/ Return
    \/ KL

SpecCache == InitInstance /\ [][NextCache]_vars
SpecSample == InitInstance /\ [][NextSample]_vars
SpecLogProb == InitInstance /\ [][NextLogProb]_vars
SpecMultitask == InitInstance /\ [][NextMultitask]_vars
SpecKL == InitInstance /\ [][NextKL]_vars

(***************************************************************************)
(* The ELBO objective: construction and forward.                           *)
(***************************************************************************)
Betas == {RInt(1), Rat(1, 2)}
LossVals == {1, 2}       \* loss() of an added-loss term
PriorVals == {-1, 0}     \* summed log_prob of a prior
LLShapes == SeqsUpTo(Sizes, MaxLLRank)
\* KL shapes around a log-likelihood shape L: L with extra trailing dimensions, and
\* the leading parts of L
KLShapes(L) ==
    {L \o e : e \in SeqsUpTo(Sizes, MaxExtra)} \cup {Take(L, n) : n \in 0..Len(L)}

\* the predictive distributions handed to forward: one per event size
PredictiveDists ==
    {i \in Instances : i.islazy /\ i.batch_shape = <<>> /\ i.loc = i.event_shape
                          /\ i.covar.rank = i.event_shape[1]}

InitELBO ==
    /\ self \in PredictiveDists
    /\ cache = NewCache(self)
    /\ first = [a \in Accessors |-> <<>>]
    /\ call = [op |-> "idle"]
    /\ mll \in [num_data : 1..MaxNumData, beta : Betas, combine_terms : BOOLEAN]

Forward ==
    /\ Idle
    /\ \E ls \in LLShapes,
          losses \in SeqsUpTo(LossVals, MaxTerms),
          priors \in SeqsUpTo(PriorVals, MaxTerms) :
        \E ks \in KLShapes(ls) :
            LET in == [event_shape |-> self.event_shape,
                       ll |-> Tensor(ls, RInt(-3)),
                       kl |-> Tensor(ks, RInt(1)),
                       losses |-> losses,
                       priors |-> priors]
            IN /\ call' = [op |-> "forward", in |-> in, res |-> forward(mll, in)]
               /\ UNCHANGED <<self, cache, first, mll>>

NextELBO ==
    \/ Return
    \/ Forward

SpecELBO == InitELBO /\ [][NextELBO]_vars

\* every operation of the module
Next ==
    \/ NextCache
    \/ NextSample
    \/ NextLogProb
    \/ NextMultitask
    \/ NextKL

Spec == InitInstance /\ [][Next]_vars

(***************************************************************************)
(* Properties.                                                             *)
(***************************************************************************)
\* the root rank of the instance's covariance and the shape of its lazy covariance
RootRank(obj) == IF obj.islazy THEN obj.covar.rank ELSE obj.covariance_matrix.rank
LazyShape(obj) == IF obj.islazy THEN obj.covar.shape ELSE obj.covariance_matrix.shape

IsPrefix(a, b) == Len(a) <= Len(b) /\ Take(b, Len(a)) = a

\* shape with its axis i (0-based) moved to the last position
MoveToLast(shape, i) ==
    Take(shape, i) \o Drop(shape, i + 1) \o <<shape[i + 1]>>

\* C1: the value forward returns with combine_terms=True equals t1 - t2 + t3 - t4 of
\* the tuple it returns with combine_terms=False on the same inputs (t4 = 0 when the
\* tuple has three elements).
C1_CombinedIsSignedSum ==
    call.op = "forward" =>
        LET c == forward([mll EXCEPT !.combine_terms = TRUE], call.in)
            t == forward([mll EXCEPT !.combine_terms = FALSE], call.in).terms
            t4 == IF Len(t) = 4 THEN t[4] ELSE Tensor(<<>>, RInt(0))
        IN c.value = TSub(TAdd(TSub(t[1], t[2]), t[3]), t4)

\* C2: in either mode and for any batch shape, to_multitask(n) returns a multitask
\* Gaussian with event_shape (d, n) and the instance's batch_shape.
C2_ToMultitaskShape ==
    call.op = "to_multitask" =>
        /\ call.res.status = "ok"
        /\ call.res.res.event_shape = self.event_shape \o <<call.num_tasks>>
        /\ call.res.res.batch_shape = self.batch_shape

\* C3: KL(p, q) on broadcast-compatible batch shapes expands exactly the operands
\* whose batch shape differs from the common shape and returns a result of the common
\* shape; on incompatible batch shapes it fails with ShapeMismatch.
C3_KLBroadcast ==
    call.op = "kl" =>
        LET pb == self.batch_shape
            qb == call.q.batch_shape
        IN IF Broadcastable(pb, qb)
           THEN /\ call.res.status = "ok"
                /\ call.res.expanded_p = (pb # Broadcast(pb, qb))
                /\ call.res.expanded_q = (qb # Broadcast(pb, qb))
                /\ call.res.shape = Broadcast(pb, qb)
           ELSE call.res.status = "ShapeMismatch"

\* C4: with a root of rank d, rsample(base_samples) raises ShapeMismatch exactly when
\* the trailing dimensions of base_samples differ from event_shape, and otherwise
\* returns a result of the shape of base_samples.
C4_RsampleShapeCheck ==
    (call.op = "rsample" /\ call.base_samples # <<>>
        /\ RootRank(self) = self.event_shape[1]) =>
        LET bs == call.base_samples[1]
        IN /\ (call.res.status = "ShapeMismatch") <=> (Last(bs, 1) # self.event_shape)
           /\ call.res.status # "ShapeMismatch" =>
                 (call.res.status = "ok" /\ call.res.shape = bs)

\* C5: on the fast path, when the batch shape of diff differs from the covariance's,
\* reconciliation ends with equal batch shapes (diff expanded when the covariance
\* has the larger batch rank, the covariance tiled by diff_size // covar_size
\* otherwise), and a dimension whose diff_size is not an exact positive multiple of
\* covar_size is rejected with ShapeMismatch.
C5_LogProbReconcile ==
    (call.op = "log_prob" /\ call.fast
        /\ (self.validate_args => validate_sample(self, call.value))
        /\ Broadcastable(call.value, self.loc)) =>
        LET diff == ButLast(Broadcast(call.value, self.loc), 1)
            cov == ButLast(LazyShape(self), 2)
            padded == PadLeft(cov, Len(diff))
        IN diff # cov =>
            IF Len(diff) < Len(cov)
            THEN /\ call.res.status \in {"ok", "ShapeMismatch"}
                 /\ call.res.status = "ok" =>
                       /\ call.res.how = "expand"
                       /\ call.res.diff_batch = call.res.covar_batch
            ELSE IF \A i \in 1..Len(diff) : diff[i] % padded[i] = 0
            THEN /\ call.res.status = "ok"
                 /\ call.res.how = "repeat"
                 /\ call.res.factors = [i \in 1..Len(diff) |-> diff[i] \div padded[i]]
                 /\ call.res.diff_batch = call.res.covar_batch
            ELSE call.res.status = "ShapeMismatch"

\* C6: to_multitask_from_batch(task_dim) fails with InvalidArgument or reinterprets an
\* existing batch dimension: when it returns, 0 <= task_dim < k, the mean is the
\* original mean with that batch dimension moved last and the block dimension is that
\* dimension; with k = 0 every task_dim fails.
C6_TaskDimIsBatchDim ==
    call.op = "to_multitask_from_batch" =>
        LET k == Len(self.batch_shape)
        IN /\ call.res.status = "ok" =>
                /\ 0 <= call.res.task_dim /\ call.res.task_dim < k
                /\ call.res.res.mean =
                       MoveToLast(self.batch_shape \o self.event_shape, call.res.task_dim)
                /\ call.res.res.block_dim = call.res.task_dim
           /\ k = 0 => call.res.status # "ok"

\* C7: on a structured instance every attempt to set the cached scale factor fails
\* with NotSupported and leaves the cache unchanged, so the cache holds only None or
\* the Cholesky factor of the instance's own operator; on a dense instance the set
\* succeeds and stores the supplied value.
C7_ScaleTrilSetter ==
    /\ self.islazy =>
          \/ cache.ust = NoneValue
          \/ cache.ust = [via |-> "cholesky", of |-> self.covar]
    /\ call.op = "set_unbroadcasted_scale_tril" =>
          IF self.islazy
          THEN call.status = "NotSupported" /\ cache = call.before
          ELSE call.status = "ok" /\ cache.ust = call.arg

\* C7 witness: a set is attempted on a structured instance whose factor is computed
C7_Witness ==
    /\ self.islazy
    /\ call.op = "set_unbroadcasted_scale_tril"
    /\ call.before.ust # NoneValue

\* C8: in rsample with base_samples that passed the shape check, a root of rank
\* r < d uses only the first r rows and the result has shape sample_shape +
\* loc.shape; r = d uses every row; r > d fails with DimensionMismatch.
C8_RankAdjustment ==
    (call.op = "rsample" /\ call.base_samples # <<>>
        /\ self.loc = Last(call.base_samples[1], Len(self.loc))) =>
        LET r == RootRank(self)
            d == self.loc[Len(self.loc)]
            bs == call.base_samples[1]
        IN /\ r < d => /\ call.res.status = "ok"
                       /\ call.res.used = 1..r
                       /\ call.res.shape = Take(bs, Len(bs) - Len(self.loc)) \o self.loc
           /\ r = d => /\ call.res.status = "ok"
                       /\ call.res.used = 1..d
           /\ r > d => call.res.status = "DimensionMismatch"

\* C9: the dense materialization, the wrapping of the dense array and the Cholesky
\* factorization each run at most once per instance, every access returns the value
\* the first access stored, and on a structured instance the lazy covariance
\* accessor returns the operator given at construction.
C9_ComputeOnce ==
    /\ cache.nEvaluate <= 1
    /\ cache.nLazify <= 1
    /\ cache.nCholesky <= 1
    /\ call.op \in Accessors => first[call.op] = <<call.value>>
    /\ (call.op = "lazy_covariance_matrix" /\ self.islazy) => call.value = self.covar

\* C9 witness: a repeated access to the structured covariance on a structured
\* instance whose dense covariance and Cholesky factor have been computed
C9_Witness ==
    /\ self.islazy
    /\ call.op = "lazy_covariance_matrix"
    /\ call.cached
    /\ cache.nEvaluate = 1
    /\ cache.nCholesky = 1

====
